---------------------------- MODULE Spec2Model ----------------------------
(***************************************************************************)
(* Model of the retrieval-and-routing core of trustbit-rag-challenge:      *)
(* the submission driver (scripts/generate_submission.py), RAGRouter       *)
(* (router.py), ChromaRetriever (retriever.py) and the parts of LLMClient  *)
(* (llm/client.py) the router sees.  The vector store, the cross-encoder   *)
(* and the model API are the environment: each call to one of them is a    *)
(* step whose outcome (a result or a failure) is chosen nondeterministically.*)
(*                                                                         *)
(* Strings that the code inspects (question texts, company names) are      *)
(* sequences of one-character strings, so that `in`, split and strip are   *)
(* computed.  Opaque strings (passage texts, sha1 ids) are TLA+ strings.   *)
(***************************************************************************)
EXTENDS Integers, Sequences, FiniteSets, TLC

(***************************************************************************)
(* Bounds of the model.                                                    *)
(***************************************************************************)
\* top_k and fetch_k of _handle_single (5 and 30 in the code), scaled down to
\* the size of the modelled passage store.
TopK == 2
FetchK == 2
\* Length of the evidence lists drawn for the checks of _validate_references.
MaxChunks == 2

(***************************************************************************)
(* enums.py: QuestionKind                                                  *)
(***************************************************************************)
NUMBER == "number"
NAME == "name"
BOOLEAN_KIND == "boolean"
NAMES == "names"
COMPARATIVE == "comparative"
QuestionKind == {NUMBER, NAME, BOOLEAN_KIND, NAMES, COMPARATIVE}

(***************************************************************************)
(* Python values of type str | float | int | bool | list[str], as records  *)
(* of one shape.                                                           *)
(***************************************************************************)
StrV(x) == [tag |-> "str", s |-> x, n |-> 0, b |-> FALSE, l |-> <<>>]
NumV(x) == [tag |-> "num", s |-> "", n |-> x, b |-> FALSE, l |-> <<>>]
BoolV(x) == [tag |-> "bool", s |-> "", n |-> 0, b |-> x, l |-> <<>>]
ListV(x) == [tag |-> "list", s |-> "", n |-> 0, b |-> FALSE, l |-> x]

\* str.upper() on the strings the model's answers use.
Upper(x) ==
    CASE x = "n/a" -> "N/A"
      [] x = "N/A" -> "N/A"
      [] x = "Bob" -> "BOB"
      [] x = "A" -> "A"
      [] OTHER -> x

\* str(value).upper() of router.py line 79.
StrUpper(v) ==
    CASE v.tag = "str" -> Upper(v.s)
      [] v.tag = "bool" -> (IF v.b THEN "TRUE" ELSE "FALSE")
      [] v.tag = "num" -> "<NUMBER>"
      [] OTHER -> (IF v.l = <<>> THEN "[]" ELSE "[...]")

(***************************************************************************)
(* schemas.py: the final_answer values each response schema admits.        *)
(***************************************************************************)
FinalAnswers(kind) ==
    CASE kind = NUMBER -> {NumV(42), StrV("N/A")}
      [] kind = BOOLEAN_KIND -> {BoolV(TRUE), BoolV(FALSE)}
      [] kind = NAMES -> {ListV(<<"Bob">>), ListV(<<>>), StrV("N/A")}
      [] kind = COMPARATIVE -> {StrV("A"), StrV("N/A")}
      [] OTHER -> {StrV("Bob"), StrV("N/A"), StrV("n/a")}

\* ReferencesMixin.relevant_pages: the page lists the model may claim.  Pages 1,
\* 2 and 3 exist in the passage store, page 9 in no document.
PageLists == {<<>>, <<1>>, <<3>>, <<9>>, <<2, 1>>}

\* schemas.py: ClientResponse
ClientResponse(value, relevant_pages, reasoning_summary) ==
    [value |-> value, relevant_pages |-> relevant_pages,
     reasoning_summary |-> reasoning_summary]

(***************************************************************************)
(* LLMClient._get_fallback_response                                        *)
(***************************************************************************)
\* Variant that answers "N/A" for every kind.
GetFallbackResponseNA(kind, error_msg) ==
    ClientResponse(StrV("N/A"), <<>>, error_msg)

GetFallbackResponse(kind, error_msg) ==
    ClientResponse(
        IF kind = BOOLEAN_KIND THEN BoolV(FALSE)
        ELSE IF kind = NAMES THEN ListV(<<>>)
        ELSE StrV("N/A"),
        <<>>, error_msg)

(***************************************************************************)
(* Sequence helpers.                                                       *)
(***************************************************************************)
Range(s) == {s[k] : k \in DOMAIN s}

Take(s, k) == SubSeq(s, 1, IF k < Len(s) THEN k ELSE Len(s))

\* Python `sub in text` on strings.
Contains(text, sub) ==
    \E k \in 0..(Len(text) - Len(sub)) : SubSeq(text, k + 1, k + Len(sub)) = sub

RECURSIVE LStrip(_, _)
LStrip(s, ch) ==
    IF s # <<>> /\ Head(s) = ch THEN LStrip(Tail(s), ch) ELSE s

RECURSIVE RStrip(_, _)
RStrip(s, ch) ==
    IF s # <<>> /\ s[Len(s)] = ch THEN RStrip(SubSeq(s, 1, Len(s) - 1), ch) ELSE s

\* str.strip(ch)
Strip(s, ch) == RStrip(LStrip(s, ch), ch)

\* query.split("?")[0]
RECURSIVE SplitQ(_)
SplitQ(s) ==
    IF s = <<>> \/ Head(s) = "?" THEN <<>> ELSE <<Head(s)>> \o SplitQ(Tail(s))

\* list.sort(key=..., reverse=True) / sorted(..., reverse=True) on a sequence of
\* records with a field `key`: stable, by descending key.  Insert x after every
\* element whose key is >= x.key.
RECURSIVE InsertDesc(_, _)
InsertDesc(sorted, x) ==
    IF sorted = <<>> THEN <<x>>
    ELSE IF Head(sorted).key >= x.key
         THEN <<Head(sorted)>> \o InsertDesc(Tail(sorted), x)
         ELSE <<x>> \o sorted

RECURSIVE SortDesc(_)
SortDesc(s) ==
    IF s = <<>> THEN <<>>
    ELSE InsertDesc(SortDesc(SubSeq(s, 1, Len(s) - 1)), s[Len(s)])

(***************************************************************************)
(* The world the program runs in: the company mapping CSV and the passages *)
(* of the Chroma collection, by document.                                  *)
(***************************************************************************)
None == "None"

\* The states the mapping file can be in when the retriever is constructed.
MappingFiles == {"ok", "missing", "no_columns"}

\* Variant of LoadCompanyMapRaises that does not check the columns.
LoadCompanyMapRaisesIfMissing(csv) == csv = "missing"

\* _load_company_map lines 104-115 and 125-127: FileNotFoundError when the
\* file does not exist, ValueError (raised again by the except clause) when a
\* required column is not there.
LoadCompanyMapRaises(csv) == csv = "missing" \/ csv = "no_columns"

\* The rows of the company mapping CSV as pandas reads them.  The first name
\* is wrapped in double quotes; "A" is a substring of "AB"; document d3 has no
\* passages in the store.
CsvRows ==
    << [company_name |-> <<"\"", "A", "\"">>, sha1 |-> "d1"],
       [company_name |-> <<"A", "B">>, sha1 |-> "d2"],
       [company_name |-> <<"G">>, sha1 |-> "d3"],
       [company_name |-> <<"H">>, sha1 |-> "d4"] >>

\* Variant of CsvName that keeps the name as read.
CsvNameRaw(raw) == raw

\* retriever.py line 119: .str.strip('"')
CsvName(raw) == Strip(raw, "\"")

\* The keys of dict(zip(names, sha1s)): each name once, in the order of its
\* first row.
RECURSIVE DictKeys(_)
DictKeys(rows) ==
    IF rows = <<>> THEN <<>>
    ELSE LET before == DictKeys(SubSeq(rows, 1, Len(rows) - 1))
             name == CsvName(rows[Len(rows)].company_name)
         IN  IF \E k \in DOMAIN before : before[k] = name
             THEN before
             ELSE Append(before, name)

\* RAGRouter.known_companies: the keys of company_map.
known_companies == DictKeys(CsvRows)

\* ChromaRetriever._load_company_map: company_name -> sha1; the last row of a
\* name gives its value.
company_map ==
    [name \in Range(known_companies) |->
        LET last == CHOOSE k \in DOMAIN CsvRows :
                      /\ CsvName(CsvRows[k].company_name) = name
                      /\ \A j \in DOMAIN CsvRows :
                           CsvName(CsvRows[j].company_name) = name => j <= k
        IN  CsvRows[last].sha1]

Doc(text, page, sha1) == [page_content |-> text, page_index |-> page, source |-> sha1]

\* vector_store.get(where={"source": sha1}): documents with their metadatas, in
\* store order.  Two passages of d1 are on the same page.
Store(sha1) ==
    CASE sha1 = "d1" -> <<Doc("t1", 1, "d1"), Doc("t2", 1, "d1"), Doc("t3", 2, "d1")>>
      [] sha1 = "d2" -> <<Doc("t4", 3, "d2")>>
      [] sha1 = "d4" -> <<Doc("t5", 3, "d4")>>
      [] OTHER -> <<>>

\* Variant of _get_sha1_by_name that falls back on the first document.
GetSha1ByNameDefault(company_name) ==
    IF company_name \in DOMAIN company_map THEN company_map[company_name] ELSE "d1"

\* ChromaRetriever._get_sha1_by_name
GetSha1ByName(company_name) ==
    IF company_name \in DOMAIN company_map THEN company_map[company_name] ELSE None

(***************************************************************************)
(* RAGRouter._validate_references                                          *)
(***************************************************************************)
\* Variant of IsNegative that only knows "N/A".
IsNegativeNAOnly(kind, value) == StrUpper(value) = "N/A"

\* router.py lines 78-82
IsNegative(kind, value) ==
    \/ StrUpper(value) = "N/A"
    \/ (kind = BOOLEAN_KIND /\ value.tag = "bool" /\ ~value.b)
    \/ (kind = NAMES /\ value.tag = "list" /\ value.l = <<>>)

\* Variant of FilterChunks that keeps every chunk shown.
FilterChunksAll(chunks, mentioned_set) ==
    [k \in DOMAIN chunks |->
        [pdf_sha1 |-> chunks[k].source, page_index |-> chunks[k].page_index]]

\* router.py lines 85-90
RECURSIVE FilterChunks(_, _)
FilterChunks(chunks, mentioned_set) ==
    IF chunks = <<>> THEN <<>>
    ELSE (IF Head(chunks).page_index \in mentioned_set
          THEN <<[pdf_sha1 |-> Head(chunks).source,
                  page_index |-> Head(chunks).page_index]>>
          ELSE <<>>)
         \o FilterChunks(Tail(chunks), mentioned_set)

ValidateReferences(kind, chunks, client_response) ==
    IF client_response.relevant_pages = <<>> THEN <<>>
    ELSE IF IsNegative(kind, client_response.value) THEN <<>>
    ELSE FilterChunks(chunks, Range(client_response.relevant_pages))

(***************************************************************************)
(* RAGRouter._extract_companies                                            *)
(***************************************************************************)
RECURSIVE ExtractFrom(_, _)
ExtractFrom(names, text) ==
    IF names = <<>> THEN <<>>
    ELSE (IF Contains(text, Head(names)) THEN <<Strip(Head(names), "\"")>> ELSE <<>>)
         \o ExtractFrom(Tail(names), text)

ExtractCompanies(text) == ExtractFrom(known_companies, text)

(***************************************************************************)
(* ChromaRetriever: the lexical pool, the merge and the reranking.         *)
(***************************************************************************)
\* retriever.py lines 222-224: sorted(range(len(scores)), key=scores, reverse)[:fetch_k]
TopIndices(scores, fetch_k) ==
    LET keyed == [k \in 1..Len(scores) |-> [item |-> k, key |-> scores[k]]]
        order == SortDesc(keyed)
    IN  Take([k \in 1..Len(order) |-> order[k].item], fetch_k)

\* Variant of lines 226-236 that skips only the negative scores.
RECURSIVE PositiveDocsNonNegative(_, _, _)
PositiveDocsNonNegative(top_indices, scores, passages) ==
    IF top_indices = <<>> THEN <<>>
    ELSE (IF scores[Head(top_indices)] < 0 THEN <<>>
          ELSE <<passages[Head(top_indices)]>>)
         \o PositiveDocsNonNegative(Tail(top_indices), scores, passages)

\* retriever.py lines 226-236
RECURSIVE PositiveDocs(_, _, _)
PositiveDocs(top_indices, scores, passages) ==
    IF top_indices = <<>> THEN <<>>
    ELSE (IF scores[Head(top_indices)] <= 0 THEN <<>>
          ELSE <<passages[Head(top_indices)]>>)
         \o PositiveDocs(Tail(top_indices), scores, passages)

\* Variant of _get_bm25_index that builds an index whenever the fetch returned.
IndexBuiltUnlessRaised(failure, raw_chunks) == ~failure

\* _get_bm25_index lines 171-181: an index is built when the fetch did not
\* raise and returned passages.
IndexBuilt(failure, raw_chunks) == ~failure /\ raw_chunks # <<>>

\* Variant of the cache write that keeps no other entry.
CachePutAlone(cache, sha1, raw_chunks) == [s \in {sha1} |-> raw_chunks]

\* Variant of the cache write that adds the passages to those of an entry
\* that is already there.
CachePutAppend(cache, sha1, raw_chunks) ==
    [s \in DOMAIN cache \cup {sha1} |->
        IF s # sha1 THEN cache[s]
        ELSE IF sha1 \in DOMAIN cache THEN cache[sha1] \o raw_chunks ELSE raw_chunks]

\* _get_bm25_index line 186: self._bm25_cache[sha1] = (bm25, raw_chunks, metadatas)
CachePut(cache, sha1, raw_chunks) ==
    [s \in DOMAIN cache \cup {sha1} |-> IF s = sha1 THEN raw_chunks ELSE cache[s]]

\* _fetch_bm25_candidates on a built index (passages) and the scores
\* bm25.get_scores gave.
Bm25Candidates(passages, scores, fetch_k) ==
    PositiveDocs(TopIndices(scores, fetch_k), scores, passages)

\* unique_docs_map[doc.page_content] = doc: a dict keeps the position of a key's
\* first insertion and the value of its last.
DictPut(m, doc) ==
    IF \E k \in DOMAIN m : m[k].page_content = doc.page_content
    THEN [k \in DOMAIN m |-> IF m[k].page_content = doc.page_content THEN doc ELSE m[k]]
    ELSE Append(m, doc)

RECURSIVE DictPutAll(_, _)
DictPutAll(m, docs) ==
    IF docs = <<>> THEN m ELSE DictPutAll(DictPut(m, Head(docs)), Tail(docs))

\* Variant of MergePools that concatenates the pools.
MergePoolsConcat(bm25_docs, vector_docs) == bm25_docs \o vector_docs

\* retriever.py lines 320-328
MergePools(bm25_docs, vector_docs) == DictPutAll(DictPutAll(<<>>, bm25_docs), vector_docs)

\* round(score, 4): scores are integers in units of 1e-5, the result in 1e-4.
Round4(score) == (score + 5) \div 10

\* Variant of Rerank that does not sort.
RerankUnsorted(candidates, rerank_scores, top_k) ==
    LET final_selection == Take(candidates, top_k)
    IN  [k \in 1..Len(final_selection) |->
            [text |-> final_selection[k].page_content,
             score |-> Round4(rerank_scores[k]),
             page_index |-> final_selection[k].page_index,
             source |-> final_selection[k].source]]

\* Variant of Rerank that cuts to top_k before it sorts.
RerankCutFirst(candidates, rerank_scores, top_k) ==
    LET reranked_results ==
            [k \in 1..Len(candidates) |->
                [doc |-> candidates[k], score |-> rerank_scores[k],
                 key |-> rerank_scores[k]]]
        final_selection == SortDesc(Take(reranked_results, top_k))
    IN  [k \in 1..Len(final_selection) |->
            [text |-> final_selection[k].doc.page_content,
             score |-> Round4(final_selection[k].score),
             page_index |-> final_selection[k].doc.page_index,
             source |-> final_selection[k].doc.source]]

\* retriever.py lines 338-361: sort by score descending, cut to top_k, format.
Rerank(candidates, rerank_scores, top_k) ==
    LET reranked_results ==
            [k \in 1..Len(candidates) |->
                [doc |-> candidates[k], score |-> rerank_scores[k],
                 key |-> rerank_scores[k]]]
        final_selection == Take(SortDesc(reranked_results), top_k)
    IN  [k \in 1..Len(final_selection) |->
            [text |-> final_selection[k].doc.page_content,
             score |-> Round4(final_selection[k].score),
             page_index |-> final_selection[k].doc.page_index,
             source |-> final_selection[k].doc.source]]

(***************************************************************************)
(* The collaborators' possible results.                                    *)
(***************************************************************************)
\* Sequences of distinct elements of 1..n, of length 0..m.
Arrangements(n, m) ==
    UNION {{f \in [1..len -> 1..n] : \A a, b \in 1..len : a # b => f[a] # f[b]} :
           len \in 0..(IF m < n THEN m ELSE n)}

\* similarity_search_with_score(query, k=fetch_k, filter={"source": sha1}):
\* up to fetch_k passages of the document, in similarity order.
VectorResults(sha1, fetch_k) ==
    {[k \in DOMAIN f |-> Store(sha1)[f[k]]] : f \in Arrangements(Len(Store(sha1)), fetch_k)}

\* bm25.get_scores(tokenized_query): one score per passage of the index.
Bm25ScoreValues == {0, 1, 2}

\* reranker.predict(pairs): one score per pair, in units of 1e-5.
RerankScoreValues == {12344, 12346}

\* What _call_llm returns for the schema of `kind`: ComparativeResponse has no
\* relevant_pages attribute.
LLMResponses(kind) ==
    IF kind = COMPARATIVE
    THEN {[final_answer |-> v, has_pages |-> FALSE, relevant_pages |-> <<>>] :
          v \in FinalAnswers(kind)}
    ELSE {[final_answer |-> v, has_pages |-> TRUE, relevant_pages |-> p] :
          v \in FinalAnswers(kind), p \in PageLists}

\* client.py lines 230-238
ToClientResponse(llm_response) ==
    ClientResponse(llm_response.final_answer,
                   IF llm_response.has_pages THEN llm_response.relevant_pages ELSE <<>>,
                   "llm")

\* The sub-question the decomposer writes for a company.
Rephrased(c) == c \o <<"r", "?">>

\* RephrasedQuestions the model may return for `companies`: for each company an
\* item under its name, an item under its name padded with blanks, or no item.
RECURSIVE RephrasedItems(_, _)
RephrasedItems(companies, sel) ==
    IF companies = <<>> THEN <<>>
    ELSE (CASE Head(sel) = "named" ->
                 <<[company_name |-> Head(companies), question |-> Rephrased(Head(companies))]>>
            [] Head(sel) = "padded" ->
                 <<[company_name |-> <<" ">> \o Head(companies) \o <<" ">>,
                    question |-> Rephrased(Head(companies))]>>
            [] OTHER -> <<>>)
         \o RephrasedItems(Tail(companies), Tail(sel))

DecomposerResponses(companies) ==
    {RephrasedItems(companies, sel) :
        sel \in [1..Len(companies) -> {"named", "padded", "missing"}]}

(***************************************************************************)
(* LLMClient.rephrase_comparative_question: the fallback of lines 275-284  *)
(***************************************************************************)
RephraseFallback(question, companies) ==
    [k \in 1..Len(companies) |-> [company_name |-> companies[k], question |-> question]]

\* router.py lines 250-253: {item.company_name.strip(): item.question ...}; a
\* later item with the same key replaces an earlier one.
RephrasedMap(questions) ==
    LET keys == {Strip(questions[k].company_name, " ") : k \in DOMAIN questions}
        last(name) == CHOOSE k \in DOMAIN questions :
                        /\ Strip(questions[k].company_name, " ") = name
                        /\ \A j \in DOMAIN questions :
                             Strip(questions[j].company_name, " ") = name => j <= k
    IN  [name \in keys |-> questions[last(name)].question]

\* rephrased_map.get(company, query)
SubQuery(map, c, q) == IF c \in DOMAIN map THEN map[c] ELSE q

(***************************************************************************)
(* Inputs: the questions file.                                             *)
(***************************************************************************)
QuestionTexts ==
    { <<"x", "?">>,            \* no known company
      <<"A", "?", "x">>,       \* company A, with text after the question mark
      <<"G", "?">>,            \* company G, whose document has no passages
      <<"H", "?">>,            \* company H
      <<"A", "B", "?">> }      \* companies A and AB

\* The "kind" strings a questions file can hold: the values of QuestionKind
\* and a string that is not one of them.
RawKinds == QuestionKind \cup {"date"}

\* generate_submission.py line 50: QuestionKind(q_data["kind"]) gives the
\* member with that value; for any other string it raises ValueError.
KindParses(raw) == raw \in QuestionKind

QuestionDicts == [text : QuestionTexts, kind : RawKinds]

\* One-question files, and two-question files whose first question is about
\* company H.
QuestionFiles ==
    {<<q>> : q \in QuestionDicts}
    \cup {<<[text |-> <<"H", "?">>, kind |-> BOOLEAN_KIND], q>> : q \in QuestionDicts}

(***************************************************************************)
(* State.                                                                  *)
(***************************************************************************)
VARIABLES
    pc,                 \* where the program is
    mapping_csv,        \* the company mapping file: "ok", "missing" or "no_columns"
    questions_data,     \* main: the loaded questions
    i,                  \* main: number of questions processed
    answers_list,       \* main: the answers appended so far
    failed,             \* history: for each answer, whether the except clause made it
    question_text,      \* answer_question: its arguments
    question_kind,
    companies,          \* answer_question: the companies found
    route,              \* answer_question: "none", "single" or "comparative"
    response,           \* answer_question: the RouterResponse it returns
    rephrased_map,      \* _handle_comparative: locals
    idx,
    individual_results,
    all_references,
    entity_references,  \* history: the references each _handle_single call returned
    final_answer,
    company,            \* _handle_single: arguments
    query,
    kind,
    question,           \* _handle_single: the retrieval query
    vector_docs,        \* retrieve: locals, kept until the Answerer is called
    bm25_docs,
    vector_failed,      \* history: the semantic search of this retrieve raised
    store_failed,       \* history: the passage-store fetch of this retrieve raised
    candidates,         \* retrieve: the merged, deduplicated pool
    scored,             \* history: the (text, score) pairs of reranker.predict
    chunks,             \* _handle_single: locals
    answer,
    references,
    bm25_cache,         \* ChromaRetriever._bm25_cache
    calls,              \* history: collaborator calls made for the current question
    rephrase_failed,    \* history: the decomposition call of this question failed
    exc,                \* the exception being propagated, or "none"
    bm25_scores,        \* _fetch_bm25_candidates called on its own: bm25.get_scores
    fetch_k,            \* _fetch_bm25_candidates called on its own: its limit
    threads,            \* _get_bm25_index called by two callers: where each one is
    attempts            \* _call_llm called on its own: the outcome of each attempt

vars == <<pc, mapping_csv, questions_data, i, answers_list, failed, question_text, question_kind,
          companies, route, response, rephrased_map, idx, individual_results,
          all_references, entity_references, final_answer, company, query, kind, question,
          vector_docs, bm25_docs, vector_failed, store_failed, candidates, scored, chunks,
          answer, references, bm25_cache, calls,
          rephrase_failed, exc, bm25_scores, fetch_k, threads, attempts>>

\* The state of the functions that are exercised on their own.
unit_vars == <<bm25_scores, fetch_k, threads, attempts>>

UnitIdle ==
    /\ bm25_scores = <<>>
    /\ fetch_k = FetchK
    /\ threads = <<>>
    /\ attempts = <<>>

main_vars == <<mapping_csv, questions_data, i, answers_list, failed>>
question_vars == <<question_text, question_kind, companies, route, rephrase_failed>>
comparative_vars == <<rephrased_map, idx, individual_results, all_references,
                      entity_references, final_answer>>
single_args == <<company, query, kind, question>>
retrieve_vars == <<vector_docs, bm25_docs, vector_failed, store_failed, candidates, scored>>

NoResponse == ClientResponse(StrV(""), <<>>, "")
NoRouterResponse == [value |-> StrV(""), references |-> <<>>]
NoCalls ==
    [vector |-> 0, store |-> 0, reranker |-> 0, answerer |-> 0, decomposer |-> 0,
     synthesis |-> 0, asked |-> <<>>]

\* schemas.py: RouterResponse
RouterResponse(value, refs) == [value |-> value, references |-> refs]

\* schemas.py: SourceReference, Answer
SourceReference(r) == [pdf_sha1 |-> r.pdf_sha1, page_index |-> r.page_index]

Answer(text, k, value, refs) ==
    [question_text |-> text, kind |-> k, value |-> value, references |-> refs]

Called(name) == calls' = [calls EXCEPT ![name] = @ + 1]

\* llm.answer_question(q, context, k) is called: the call is counted under
\* name and its question and kind are kept.
CalledAnswerer(name, q, k) ==
    calls' = [calls EXCEPT ![name] = @ + 1,
                           !.asked = Append(@, [question |-> q, kind |-> k])]

Init ==
    /\ pc = "start"
    /\ mapping_csv \in MappingFiles
    /\ questions_data \in QuestionFiles
    /\ i = 0
    /\ answers_list = <<>>
    /\ failed = <<>>
    /\ question_text = <<>>
    /\ question_kind = NUMBER
    /\ companies = <<>>
    /\ route = "none"
    /\ response = NoRouterResponse
    /\ rephrased_map = <<>>
    /\ idx = 0
    /\ individual_results = <<>>
    /\ all_references = <<>>
    /\ entity_references = <<>>
    /\ final_answer = NoResponse
    /\ company = <<>>
    /\ query = <<>>
    /\ kind = NUMBER
    /\ question = <<>>
    /\ vector_docs = <<>>
    /\ bm25_docs = <<>>
    /\ vector_failed = FALSE
    /\ store_failed = FALSE
    /\ candidates = <<>>
    /\ scored = <<>>
    /\ chunks = <<>>
    /\ answer = NoResponse
    /\ references = <<>>
    /\ bm25_cache = <<>>
    /\ calls = NoCalls
    /\ rephrase_failed = FALSE
    /\ exc = "none"
    /\ UnitIdle

(***************************************************************************)
(* RAGRouter._handle_single and ChromaRetriever.retrieve, step by step.    *)
(***************************************************************************)
\* _handle_single's fallback of lines 203-208.
NoChunksFallback(k) ==
    /\ chunks' = <<>>
    /\ answer' = GetFallbackResponse(k, "No information found")
    /\ references' = <<>>
    /\ pc' = "single_done"

\* Call _handle_single(c, q, k): the retrieval query is cut at the first
\* question mark, retrieve is entered and resolves the company (retriever.py
\* lines 311-314).
EnterSingle(c, q, k) ==
    /\ company' = c
    /\ query' = q
    /\ kind' = k
    /\ question' = SplitQ(q)
    /\ vector_docs' = <<>>
    /\ bm25_docs' = <<>>
    /\ vector_failed' = FALSE
    /\ store_failed' = FALSE
    /\ candidates' = <<>>
    /\ scored' = <<>>
    /\ IF GetSha1ByName(c) = None
       THEN NoChunksFallback(k)
       ELSE /\ chunks' = <<>>
            /\ answer' = NoResponse
            /\ references' = <<>>
            /\ pc' = "vector"

\* Variant of FetchVectorCandidates that searches a second time when the
\* first search raised.
FetchVectorCandidatesRetry ==
    /\ pc = "vector"
    /\ \E failure \in BOOLEAN :
         \E docs \in VectorResults(GetSha1ByName(company), FetchK) :
            /\ vector_docs' = docs
            /\ vector_failed' = FALSE
            /\ calls' = [calls EXCEPT !["vector"] = IF failure THEN @ + 2 ELSE @ + 1]
    /\ pc' = "bm25"
    /\ UNCHANGED <<unit_vars, main_vars, question_vars, response, comparative_vars, single_args,
                   bm25_docs, store_failed, candidates, scored, chunks, answer,
                   references, bm25_cache, exc>>

\* _fetch_vector_candidates: a failed search is an empty pool.
FetchVectorCandidates ==
    /\ pc = "vector"
    /\ \E failure \in BOOLEAN :
         \E docs \in VectorResults(GetSha1ByName(company), FetchK) :
            /\ vector_docs' = IF failure THEN <<>> ELSE docs
            /\ vector_failed' = failure
    /\ Called("vector")
    /\ pc' = "bm25"
    /\ UNCHANGED <<unit_vars, main_vars, question_vars, response, comparative_vars, single_args,
                   bm25_docs, store_failed, candidates, scored, chunks, answer,
                   references, bm25_cache, exc>>

\* Variant of AfterPools that goes on to the reranker with an empty pool.
AfterPoolsAlwaysRerank ==
    /\ candidates' = MergePools(bm25_docs', vector_docs)
    /\ pc' = "rerank"
    /\ UNCHANGED <<chunks, answer, references>>

\* retrieve lines 320-330 after both pools are fetched: an empty merged pool
\* ends retrieve with [] and _handle_single with its fallback.
AfterPools ==
    /\ candidates' = MergePools(bm25_docs', vector_docs)
    /\ IF candidates' = <<>>
       THEN NoChunksFallback(kind)
       ELSE /\ pc' = "rerank"
            /\ UNCHANGED <<chunks, answer, references>>

\* _fetch_bm25_candidates with the index in the cache.
FetchBm25Cached ==
    /\ pc = "bm25"
    /\ GetSha1ByName(company) \in DOMAIN bm25_cache
    /\ \E scores \in [1..Len(bm25_cache[GetSha1ByName(company)]) -> Bm25ScoreValues] :
         bm25_docs' = Bm25Candidates(bm25_cache[GetSha1ByName(company)], scores, FetchK)
    /\ AfterPools
    /\ UNCHANGED <<unit_vars, main_vars, question_vars, response, comparative_vars, single_args,
                   vector_docs, vector_failed, store_failed, scored, bm25_cache,
                   calls, exc>>

\* _fetch_bm25_candidates building the index: _get_bm25_index fetches the
\* document's passages; a failed fetch or an empty document gives no index and
\* an empty pool.
FetchBm25Build ==
    /\ pc = "bm25"
    /\ GetSha1ByName(company) \notin DOMAIN bm25_cache
    /\ Called("store")
    /\ \E failure \in BOOLEAN :
         LET sha1 == GetSha1ByName(company)
             raw_chunks == Store(sha1)
         IN  /\ store_failed' = failure
             /\ IF ~IndexBuilt(failure, raw_chunks)
                THEN /\ bm25_docs' = <<>>
                     /\ UNCHANGED bm25_cache
                ELSE /\ bm25_cache' = CachePut(bm25_cache, sha1, raw_chunks)
                     /\ \E scores \in [1..Len(raw_chunks) -> Bm25ScoreValues] :
                          bm25_docs' = Bm25Candidates(raw_chunks, scores, FetchK)
    /\ AfterPools
    /\ UNCHANGED <<unit_vars, main_vars, question_vars, response, comparative_vars, single_args,
                   vector_docs, vector_failed, scored, exc>>

\* retrieve lines 334-361: the reranker scores the merged pool.
RerankCandidates ==
    /\ pc = "rerank"
    /\ Called("reranker")
    /\ \E rerank_scores \in [1..Len(candidates) -> RerankScoreValues] :
              /\ chunks' = Rerank(candidates, rerank_scores, TopK)
              /\ scored' = [k \in 1..Len(candidates) |->
                               [text |-> candidates[k].page_content,
                                score |-> rerank_scores[k]]]
    /\ pc' = "answer"
    /\ UNCHANGED <<unit_vars, main_vars, question_vars, response, comparative_vars, single_args,
                   vector_docs, bm25_docs, vector_failed, store_failed, candidates,
                   answer, references, bm25_cache, exc>>

\* reranker.predict raises: nothing between it and process_single_question
\* catches the exception.
RerankRaises ==
    /\ pc = "rerank"
    /\ Called("reranker")
    /\ exc' = "reranker"
    /\ pc' = "except"
    /\ UNCHANGED <<unit_vars, main_vars, question_vars, response, comparative_vars, single_args,
                   retrieve_vars, chunks, answer, references, bm25_cache>>

\* What the try block of answer_question (client.py lines 220-224) can meet:
\* _call_llm raises after its last attempt, it returns no parsed output (and
\* _log_llm_response raises on it), or it returns a response of the schema.
NoLLMResponse == [final_answer |-> StrV(""), has_pages |-> FALSE, relevant_pages |-> <<>>]

CallOutcomes(k) ==
    {[raised |-> TRUE, parsed |-> FALSE, llm_response |-> NoLLMResponse],
     [raised |-> FALSE, parsed |-> FALSE, llm_response |-> NoLLMResponse]}
    \cup {[raised |-> FALSE, parsed |-> TRUE, llm_response |-> r] : r \in LLMResponses(k)}

\* Variant of AnswerQuestion whose fallback is that of a name question.
AnswerQuestionDefaultKind(k, outcome) ==
    IF outcome.raised THEN GetFallbackResponse(NAME, "error")
    ELSE IF ~outcome.parsed THEN GetFallbackResponse(NAME, "no parsed output")
    ELSE ToClientResponse(outcome.llm_response)

\* LLMClient.answer_question, lines 220-238
AnswerQuestion(k, outcome) ==
    IF outcome.raised THEN GetFallbackResponse(k, "error")
    ELSE IF ~outcome.parsed THEN GetFallbackResponse(k, "no parsed output")
    ELSE ToClientResponse(outcome.llm_response)

\* The responses answer_question can return for a kind.
AnswerOutcomes(k) == {AnswerQuestion(k, o) : o \in CallOutcomes(k)}

\* _handle_single lines 210-219
AnswerSingle ==
    /\ pc = "answer"
    /\ CalledAnswerer("answerer", query, kind)
    /\ \E a \in AnswerOutcomes(kind) :
         /\ answer' = a
         /\ references' = ValidateReferences(kind, chunks, a)
    /\ pc' = "single_done"
    /\ vector_docs' = <<>>
    /\ bm25_docs' = <<>>
    /\ vector_failed' = FALSE
    /\ store_failed' = FALSE
    /\ candidates' = <<>>
    /\ scored' = <<>>
    /\ UNCHANGED <<unit_vars, main_vars, question_vars, response, comparative_vars, single_args,
                   chunks, bm25_cache, exc>>

(***************************************************************************)
(* RAGRouter.answer_question and _handle_comparative.                      *)
(***************************************************************************)
ClearSingle ==
    /\ company' = <<>>
    /\ query' = <<>>
    /\ kind' = NUMBER
    /\ question' = <<>>
    /\ vector_docs' = <<>>
    /\ bm25_docs' = <<>>
    /\ vector_failed' = FALSE
    /\ store_failed' = FALSE
    /\ candidates' = <<>>
    /\ scored' = <<>>
    /\ chunks' = <<>>
    /\ answer' = NoResponse
    /\ references' = <<>>

ClearComparative ==
    /\ rephrased_map' = <<>>
    /\ idx' = 0
    /\ individual_results' = <<>>
    /\ all_references' = <<>>
    /\ entity_references' = <<>>
    /\ final_answer' = NoResponse

\* Variant of the sub-call that asks for the kind the caller passed.
SubCallKindOfCaller(caller_kind) == caller_kind

\* router.py line 260: every _handle_single call of _handle_comparative asks
\* for QuestionKind.NUMBER, whatever kind answer_question was called with.
SubCallKind(caller_kind) == NUMBER

\* Variant of RouteOf that sends every question with a company to the single path.
RouteOfAny(found) == IF Len(found) >= 1 THEN "single" ELSE "none"

\* router.py lines 142-162: the path taken for the companies found.
RouteOf(found) ==
    IF Len(found) = 1 THEN "single"
    ELSE IF Len(found) > 1 THEN "comparative"
    ELSE "none"

\* main lines 103-110: the components are constructed; when ChromaRetriever()
\* raises, main logs the error and returns.
InitializeComponents ==
    /\ pc = "start"
    /\ pc' = IF LoadCompanyMapRaises(mapping_csv) THEN "init_failed" ELSE "loop"
    /\ UNCHANGED <<unit_vars, main_vars, question_vars, response, comparative_vars, single_args,
                   retrieve_vars, chunks, answer, references, bm25_cache, calls, exc>>

\* main takes the next question; process_single_question calls
\* answer_question, which finds the companies and routes.
ProcessQuestion ==
    /\ pc = "loop"
    /\ i < Len(questions_data)
    /\ KindParses(questions_data[i + 1].kind)
    /\ LET q_data == questions_data[i + 1]
           found == ExtractCompanies(q_data.text)
       IN  /\ question_text' = q_data.text
           /\ question_kind' = q_data.kind
           /\ companies' = found
           /\ route' = RouteOf(found)
           /\ CASE RouteOf(found) = "single" ->
                     /\ EnterSingle(found[1], q_data.text, q_data.kind)
                     /\ response' = NoRouterResponse
                [] RouteOf(found) = "comparative" ->
                     /\ pc' = "decompose"
                     /\ response' = NoRouterResponse
                     /\ ClearSingle
                [] OTHER ->
                     /\ response' = RouterResponse(
                            GetFallbackResponse(q_data.kind,
                                "Company not identified in question").value, <<>>)
                     /\ pc' = "return"
                     /\ ClearSingle
    /\ calls' = NoCalls
    /\ rephrase_failed' = FALSE
    /\ exc' = "none"
    /\ UNCHANGED <<unit_vars, main_vars, comparative_vars, bm25_cache>>

\* _handle_comparative lines 247-262: rephrase_comparative_question returns the
\* model's items, or its fallback when _call_llm gave up; then _handle_single
\* is called for the first company.
Decompose ==
    /\ pc = "decompose"
    /\ Called("decomposer")
    /\ \E failure \in BOOLEAN :
         \E items \in DecomposerResponses(companies) :
            LET questions == IF failure THEN RephraseFallback(question_text, companies)
                             ELSE items
            IN  /\ rephrase_failed' = failure
                /\ rephrased_map' = RephrasedMap(questions)
                /\ EnterSingle(companies[1],
                               SubQuery(RephrasedMap(questions), companies[1],
                                        question_text),
                               SubCallKind(question_kind))
    /\ idx' = 1
    /\ UNCHANGED <<unit_vars, main_vars, question_text, question_kind, companies, route, response,
                   individual_results, all_references, entity_references, final_answer,
                   bm25_cache, exc>>

\* Variant of SummaryLine that labels every line with the first company.
SummaryLineFirst(c, a) == [company |-> companies[1], extracted_data |-> a.value]

\* router.py line 264
SummaryLine(c, a) == [company |-> c, extracted_data |-> a.value]

\* Variant of ExtendReferences that keeps the last sub-call's references only.
ExtendReferencesLastOnly(all, refs) == refs

\* router.py line 266: all_references.extend(references)
ExtendReferences(all, refs) == all \o refs

\* _handle_single returns to answer_question (lines 145-147, 164).
SingleReturns ==
    /\ pc = "single_done"
    /\ route = "single"
    /\ response' = RouterResponse(answer.value, references)
    /\ pc' = "return"
    /\ UNCHANGED <<unit_vars, main_vars, question_vars, comparative_vars, single_args,
                   retrieve_vars, chunks, answer, references, bm25_cache, calls, exc>>

\* _handle_single returns to the loop of _handle_comparative (lines 258-266),
\* which goes on with the next company or leaves the loop.
EntityReturns ==
    /\ pc = "single_done"
    /\ route = "comparative"
    /\ individual_results' = Append(individual_results, SummaryLine(company, answer))
    /\ all_references' = ExtendReferences(all_references, references)
    /\ entity_references' = Append(entity_references, references)
    /\ IF idx < Len(companies)
       THEN /\ idx' = idx + 1
            /\ EnterSingle(companies[idx + 1],
                           SubQuery(rephrased_map, companies[idx + 1], question_text),
                           SubCallKind(question_kind))
       ELSE /\ pc' = "final"
            /\ idx' = idx
            /\ ClearSingle
    /\ UNCHANGED <<unit_vars, main_vars, question_vars, response, rephrased_map, final_answer,
                   bm25_cache, calls, exc>>

\* _handle_comparative lines 268-273 and answer_question line 164.
FinalAnswer ==
    /\ pc = "final"
    /\ CalledAnswerer("synthesis", question_text, COMPARATIVE)
    /\ \E a \in AnswerOutcomes(COMPARATIVE) :
         /\ final_answer' = a
         /\ response' = RouterResponse(a.value, all_references)
    /\ pc' = "return"
    /\ UNCHANGED <<unit_vars, main_vars, question_vars, rephrased_map, idx, individual_results,
                   all_references, entity_references, single_args, retrieve_vars, chunks, answer,
                   references, bm25_cache, exc>>

(***************************************************************************)
(* generate_submission.py: process_single_question and main.               *)
(***************************************************************************)
ClearQuestion ==
    /\ question_text' = <<>>
    /\ question_kind' = NUMBER
    /\ companies' = <<>>
    /\ route' = "none"
    /\ response' = NoRouterResponse
    /\ calls' = NoCalls
    /\ rephrase_failed' = FALSE
    /\ exc' = "none"
    /\ ClearComparative
    /\ ClearSingle

\* process_single_question lines 72-78
FallbackAnswer(text, k) ==
    Answer(text, k,
           IF k = BOOLEAN_KIND THEN BoolV(FALSE)
           ELSE IF k = NAMES THEN ListV(<<>>)
           ELSE StrV("N/A"),
           <<>>)

\* process_single_question lines 55-68
ResultAnswer(text, k, result) ==
    Answer(text, k, result.value,
           [r \in DOMAIN result.references |-> SourceReference(result.references[r])])

\* answer_question returned: the Answer is built and main appends it.
ReturnAnswer ==
    /\ pc = "return"
    /\ answers_list' = Append(answers_list,
                              ResultAnswer(question_text, question_kind, response))
    /\ failed' = Append(failed, FALSE)
    /\ i' = i + 1
    /\ pc' = "loop"
    /\ ClearQuestion
    /\ UNCHANGED <<unit_vars, mapping_csv, questions_data, bm25_cache>>

\* answer_question raised: the except clause builds the Answer and main
\* appends it.
ExceptAnswer ==
    /\ pc = "except"
    /\ answers_list' = Append(answers_list, FallbackAnswer(question_text, question_kind))
    /\ failed' = Append(failed, TRUE)
    /\ i' = i + 1
    /\ pc' = "loop"
    /\ ClearQuestion
    /\ UNCHANGED <<unit_vars, mapping_csv, questions_data, bm25_cache>>

\* process_single_question lines 49-50 are not inside the try: a kind that is
\* no QuestionKind value raises ValueError out of process_single_question,
\* and the loop of main (lines 122-124) does not catch it: the run ends
\* without a submission.
KindRaises ==
    /\ pc = "loop"
    /\ i < Len(questions_data)
    /\ ~KindParses(questions_data[i + 1].kind)
    /\ pc' = "crashed"
    /\ exc' = "kind"
    /\ UNCHANGED <<unit_vars, main_vars, question_vars, response, comparative_vars, single_args,
                   retrieve_vars, chunks, answer, references, bm25_cache, calls>>

\* main lines 133-146: all questions processed, the submission is written.
SaveSubmission ==
    /\ pc = "loop"
    /\ i = Len(questions_data)
    /\ pc' = "saved"
    /\ UNCHANGED <<unit_vars, main_vars, question_vars, response, comparative_vars, single_args,
                   retrieve_vars, chunks, answer, references, bm25_cache, calls, exc>>

Next ==
    \/ InitializeComponents
    \/ ProcessQuestion
    \/ Decompose
    \/ FetchVectorCandidates
    \/ FetchBm25Cached
    \/ FetchBm25Build
    \/ RerankCandidates
    \/ RerankRaises
    \/ AnswerSingle
    \/ SingleReturns
    \/ EntityReturns
    \/ FinalAnswer
    \/ ReturnAnswer
    \/ ExceptAnswer
    \/ KindRaises
    \/ SaveSubmission

Spec == Init /\ [][Next]_vars

(***************************************************************************)
(* _validate_references alone, on drawn arguments: any kind, any evidence  *)
(* list of up to MaxChunks chunks, any answer value and any claimed pages. *)
(***************************************************************************)
ChunkPool ==
    {[text |-> d.page_content, score |-> Round4(sc), page_index |-> d.page_index,
      source |-> d.source] :
        d \in Range(Store("d1")) \cup Range(Store("d2")), sc \in RerankScoreValues}

EvidenceLists == UNION {[1..len -> ChunkPool] : len \in 0..MaxChunks}

AnyValues == UNION {FinalAnswers(k) : k \in QuestionKind}

InitValidate ==
    /\ pc = "validate"
    /\ kind \in QuestionKind
    /\ chunks \in EvidenceLists
    /\ \E v \in AnyValues, p \in PageLists : answer = ClientResponse(v, p, "llm")
    /\ references = <<>>
    /\ mapping_csv = "ok"
    /\ questions_data = <<>>
    /\ i = 0
    /\ answers_list = <<>>
    /\ failed = <<>>
    /\ question_text = <<>>
    /\ question_kind = NUMBER
    /\ companies = <<>>
    /\ route = "none"
    /\ response = NoRouterResponse
    /\ rephrased_map = <<>>
    /\ idx = 0
    /\ individual_results = <<>>
    /\ all_references = <<>>
    /\ entity_references = <<>>
    /\ final_answer = NoResponse
    /\ company = <<>>
    /\ query = <<>>
    /\ question = <<>>
    /\ vector_docs = <<>>
    /\ bm25_docs = <<>>
    /\ vector_failed = FALSE
    /\ store_failed = FALSE
    /\ candidates = <<>>
    /\ scored = <<>>
    /\ bm25_cache = <<>>
    /\ calls = NoCalls
    /\ rephrase_failed = FALSE
    /\ exc = "none"
    /\ UnitIdle

ValidateCall ==
    /\ pc = "validate"
    /\ references' = ValidateReferences(kind, chunks, answer)
    /\ pc' = "validated"
    /\ UNCHANGED <<unit_vars, main_vars, question_vars, response, comparative_vars, single_args,
                   retrieve_vars, chunks, answer, bm25_cache, calls, exc>>

NextValidate == ValidateCall

SpecValidate == InitValidate /\ [][NextValidate]_vars

(***************************************************************************)
(* ChromaRetriever.retrieve called, through _handle_single, with any company *)
(* name, on an empty or a filled lexical cache.                            *)
(***************************************************************************)
\* Company names of the directory and names that are not in it.
RetrieveNames == Range(known_companies) \cup {<<"Z">>, <<"A", "Z">>}

\* Lexical caches left by earlier retrievals.
CacheOf(sha1s) == [sha1 \in sha1s |-> Store(sha1)]

InitRetrieve ==
    /\ pc = "call"
    /\ bm25_cache \in {CacheOf({}), CacheOf({"d4"}), CacheOf({"d1", "d2"})}
    /\ mapping_csv = "ok"
    /\ questions_data = <<>>
    /\ i = 0
    /\ answers_list = <<>>
    /\ failed = <<>>
    /\ question_text = <<>>
    /\ question_kind = NUMBER
    /\ companies = <<>>
    /\ route = "none"
    /\ response = NoRouterResponse
    /\ rephrased_map = <<>>
    /\ idx = 0
    /\ individual_results = <<>>
    /\ all_references = <<>>
    /\ entity_references = <<>>
    /\ final_answer = NoResponse
    /\ company = <<>>
    /\ query = <<>>
    /\ kind = NUMBER
    /\ question = <<>>
    /\ vector_docs = <<>>
    /\ bm25_docs = <<>>
    /\ vector_failed = FALSE
    /\ store_failed = FALSE
    /\ candidates = <<>>
    /\ scored = <<>>
    /\ chunks = <<>>
    /\ answer = NoResponse
    /\ references = <<>>
    /\ calls = NoCalls
    /\ rephrase_failed = FALSE
    /\ exc = "none"
    /\ UnitIdle

RetrieveCall ==
    /\ pc = "call"
    /\ \E c \in RetrieveNames, k \in QuestionKind :
         EnterSingle(c, c \o <<"?">>, k)
    /\ UNCHANGED <<unit_vars, main_vars, question_vars, response, comparative_vars, bm25_cache,
                   calls, exc>>

NextRetrieve ==
    \/ RetrieveCall
    \/ FetchVectorCandidates
    \/ FetchBm25Cached
    \/ FetchBm25Build
    \/ RerankCandidates
    \/ RerankRaises

SpecRetrieve == InitRetrieve /\ [][NextRetrieve]_vars

(***************************************************************************)
(* RAGRouter._extract_companies on any short text.                         *)
(***************************************************************************)
MaxTextLen == 3

TextChars == {"A", "B", "G", "\"", "x"}

Texts == UNION {[1..n -> TextChars] : n \in 1..MaxTextLen}

InitExtract ==
    /\ pc = "extract"
    /\ question_text \in Texts
    /\ bm25_cache = <<>>
    /\ mapping_csv = "ok"
    /\ questions_data = <<>>
    /\ i = 0
    /\ answers_list = <<>>
    /\ failed = <<>>
    /\ question_kind = NUMBER
    /\ companies = <<>>
    /\ route = "none"
    /\ response = NoRouterResponse
    /\ rephrased_map = <<>>
    /\ idx = 0
    /\ individual_results = <<>>
    /\ all_references = <<>>
    /\ entity_references = <<>>
    /\ final_answer = NoResponse
    /\ company = <<>>
    /\ query = <<>>
    /\ kind = NUMBER
    /\ question = <<>>
    /\ vector_docs = <<>>
    /\ bm25_docs = <<>>
    /\ vector_failed = FALSE
    /\ store_failed = FALSE
    /\ candidates = <<>>
    /\ scored = <<>>
    /\ chunks = <<>>
    /\ answer = NoResponse
    /\ references = <<>>
    /\ calls = NoCalls
    /\ rephrase_failed = FALSE
    /\ exc = "none"
    /\ UnitIdle

ExtractCall ==
    /\ pc = "extract"
    /\ companies' = ExtractCompanies(question_text)
    /\ pc' = "extracted"
    /\ UNCHANGED <<unit_vars, main_vars, question_text, question_kind, route, rephrase_failed,
                   response, comparative_vars, single_args, retrieve_vars, chunks,
                   answer, references, bm25_cache, calls, exc>>

NextExtract == ExtractCall

SpecExtract == InitExtract /\ [][NextExtract]_vars

(***************************************************************************)
(* The merge of retrieve (lines 320-328) on any two small pools.           *)
(***************************************************************************)
MaxPool == 2

\* Documents of a pool: two of them have the same text on different pages.
PoolDocs == {Doc("t1", 1, "d1"), Doc("t2", 1, "d1"), Doc("t1", 2, "d1")}

Pools == UNION {[1..n -> PoolDocs] : n \in 0..MaxPool}

InitMerge ==
    /\ pc = "merge"
    /\ bm25_docs \in Pools
    /\ vector_docs \in Pools
    /\ bm25_cache = <<>>
    /\ mapping_csv = "ok"
    /\ questions_data = <<>>
    /\ i = 0
    /\ answers_list = <<>>
    /\ failed = <<>>
    /\ question_text = <<>>
    /\ question_kind = NUMBER
    /\ companies = <<>>
    /\ route = "none"
    /\ response = NoRouterResponse
    /\ rephrased_map = <<>>
    /\ idx = 0
    /\ individual_results = <<>>
    /\ all_references = <<>>
    /\ entity_references = <<>>
    /\ final_answer = NoResponse
    /\ company = <<>>
    /\ query = <<>>
    /\ kind = NUMBER
    /\ question = <<>>
    /\ vector_failed = FALSE
    /\ store_failed = FALSE
    /\ candidates = <<>>
    /\ scored = <<>>
    /\ chunks = <<>>
    /\ answer = NoResponse
    /\ references = <<>>
    /\ calls = NoCalls
    /\ rephrase_failed = FALSE
    /\ exc = "none"
    /\ UnitIdle

MergeCall ==
    /\ pc = "merge"
    /\ candidates' = MergePools(bm25_docs, vector_docs)
    /\ pc' = "merged"
    /\ UNCHANGED <<unit_vars, main_vars, question_vars, response, comparative_vars, single_args,
                   vector_docs, bm25_docs, vector_failed, store_failed, scored,
                   chunks, answer, references, bm25_cache, calls, exc>>

NextMerge == MergeCall

SpecMerge == InitMerge /\ [][NextMerge]_vars

(***************************************************************************)
(* ChromaRetriever._fetch_bm25_candidates on a built index, for any scores *)
(* and any limit.                                                          *)
(***************************************************************************)
MaxFetchK == 3

\* Every variable of the program at rest, the place of the program excepted.
ProgramIdle ==
    /\ bm25_cache = <<>>
    /\ mapping_csv = "ok"
    /\ questions_data = <<>>
    /\ i = 0
    /\ answers_list = <<>>
    /\ failed = <<>>
    /\ question_text = <<>>
    /\ question_kind = NUMBER
    /\ companies = <<>>
    /\ route = "none"
    /\ response = NoRouterResponse
    /\ rephrased_map = <<>>
    /\ idx = 0
    /\ individual_results = <<>>
    /\ all_references = <<>>
    /\ entity_references = <<>>
    /\ final_answer = NoResponse
    /\ company = <<>>
    /\ query = <<>>
    /\ kind = NUMBER
    /\ question = <<>>
    /\ vector_docs = <<>>
    /\ bm25_docs = <<>>
    /\ vector_failed = FALSE
    /\ store_failed = FALSE
    /\ candidates = <<>>
    /\ scored = <<>>
    /\ chunks = <<>>
    /\ answer = NoResponse
    /\ references = <<>>
    /\ calls = NoCalls
    /\ rephrase_failed = FALSE
    /\ exc = "none"

\* bm25.get_scores(tokenized_query): a score of any sign for each passage.
LexicalScoreValues == {-1, 0, 1, 2}

\* raw_chunks with their metadatas: the passages of the cached index.
LexicalPassages == Store("d1")

InitLexical ==
    /\ pc = "lexical"
    /\ ProgramIdle
    /\ bm25_scores \in [DOMAIN LexicalPassages -> LexicalScoreValues]
    /\ fetch_k \in 0..MaxFetchK
    /\ threads = <<>>
    /\ attempts = <<>>

LexicalCall ==
    /\ pc = "lexical"
    /\ bm25_docs' = Bm25Candidates(LexicalPassages, bm25_scores, fetch_k)
    /\ pc' = "lexical_done"
    /\ UNCHANGED <<unit_vars, main_vars, question_vars, response, comparative_vars, single_args,
                   vector_docs, vector_failed, store_failed, candidates, scored,
                   chunks, answer, references, bm25_cache, calls, exc>>

NextLexical == LexicalCall

SpecLexical == InitLexical /\ [][NextLexical]_vars

(***************************************************************************)
(* ChromaRetriever._get_bm25_index called for one document by several      *)
(* callers whose steps interleave.  A caller is at line 168 ("check"), at   *)
(* the fetch of line 172 ("fetch"), at lines 177-184 ("build"), at the      *)
(* cache write of line 186 ("write") or has returned ("done").             *)
(***************************************************************************)
MaxCallers == 2

Caller(sha1) ==
    [sha1 |-> sha1, at |-> "check", raw_chunks |-> <<>>, fetch_failed |-> FALSE,
     built |-> FALSE, result |-> None]

InitIndex ==
    /\ pc = "index"
    /\ ProgramIdle
    /\ bm25_scores = <<>>
    /\ fetch_k = FetchK
    /\ threads \in {[t \in 1..MaxCallers |-> Caller(sha1)] : sha1 \in {"d1", "d2", "d3", "d4"}}
    /\ attempts = <<>>

\* threads with caller t changed to c; everything else stays.
CallerStep(t, c) ==
    /\ threads' = [threads EXCEPT ![t] = c]
    /\ UNCHANGED <<pc, bm25_scores, fetch_k, attempts, main_vars, question_vars, response,
                   comparative_vars, single_args, retrieve_vars, chunks, answer,
                   references, calls, exc>>

\* lines 168-169: if sha1 in self._bm25_cache: return self._bm25_cache[sha1]
IndexCheck ==
    /\ pc = "index"
    /\ \E t \in DOMAIN threads :
         /\ threads[t].at = "check"
         /\ IF threads[t].sha1 \in DOMAIN bm25_cache
            THEN CallerStep(t, [threads[t] EXCEPT !.at = "done",
                                                  !.result = bm25_cache[threads[t].sha1]])
            ELSE CallerStep(t, [threads[t] EXCEPT !.at = "fetch"])
    /\ UNCHANGED bm25_cache

\* lines 171-175: the fetch returns the document's passages, or raises and
\* None is returned.
IndexFetch ==
    /\ pc = "index"
    /\ \E t \in DOMAIN threads, failure \in BOOLEAN :
         /\ threads[t].at = "fetch"
         /\ IF failure
            THEN CallerStep(t, [threads[t] EXCEPT !.at = "done", !.fetch_failed = TRUE])
            ELSE CallerStep(t, [threads[t] EXCEPT !.at = "build",
                                                  !.raw_chunks = Store(threads[t].sha1)])
    /\ UNCHANGED bm25_cache

\* lines 177-184: None is returned for a document without passages; otherwise
\* the corpus and the index are built, in locals.
IndexBuild ==
    /\ pc = "index"
    /\ \E t \in DOMAIN threads :
         /\ threads[t].at = "build"
         /\ IF IndexBuilt(FALSE, threads[t].raw_chunks)
            THEN CallerStep(t, [threads[t] EXCEPT !.at = "write", !.built = TRUE])
            ELSE CallerStep(t, [threads[t] EXCEPT !.at = "done"])
    /\ UNCHANGED bm25_cache

\* lines 186-188: the entry is written and returned.
IndexWrite ==
    /\ pc = "index"
    /\ \E t \in DOMAIN threads :
         /\ threads[t].at = "write"
         /\ bm25_cache' = CachePut(bm25_cache, threads[t].sha1, threads[t].raw_chunks)
         /\ CallerStep(t, [threads[t] EXCEPT !.at = "done",
                                             !.result = threads[t].raw_chunks])

NextIndex ==
    \/ IndexCheck
    \/ IndexFetch
    \/ IndexBuild
    \/ IndexWrite

SpecIndex == InitIndex /\ [][NextIndex]_vars

(***************************************************************************)
(* LLMClient.answer_question and rephrase_comparative_question, attempt by *)
(* attempt: _call_llm is retried by tenacity (client.py line 154).  An      *)
(* attempt raises ("raise"), returns no parsed output ("none") or returns  *)
(* an object of the schema ("parsed").                                     *)
(***************************************************************************)
\* stop_after_attempt(3)
StopAfterAttempt == 3

AttemptResults == {"raise", "none", "parsed"}

\* Variant of the retry decision that goes on until the last attempt.
CallLLMRetriesAlways(made) == Len(made) < StopAfterAttempt

\* @retry(wait=wait_fixed(2), stop=stop_after_attempt(3)): the call is made
\* once, and again after an attempt that raised while attempts are left.
CallLLMRetries(made) ==
    /\ Len(made) < StopAfterAttempt
    /\ IF made = <<>> THEN TRUE ELSE made[Len(made)] = "raise"

\* What the try block meets when the last attempt of _call_llm was `last`.
OutcomesAfter(k, last) ==
    {o \in CallOutcomes(k) : o.raised = (last = "raise") /\ o.parsed = (last = "parsed")}

InitCallLLM ==
    /\ pc \in {"answer_call", "rephrase_call"}
    /\ kind \in QuestionKind
    /\ question_text = <<"A", "B", "?">>
    /\ companies = << <<"A">>, <<"A", "B">> >>
    /\ answer = NoResponse
    /\ rephrased_map = <<>>
    /\ rephrase_failed = FALSE
    /\ bm25_cache = <<>>
    /\ mapping_csv = "ok"
    /\ questions_data = <<>>
    /\ i = 0
    /\ answers_list = <<>>
    /\ failed = <<>>
    /\ question_kind = NUMBER
    /\ route = "none"
    /\ response = NoRouterResponse
    /\ idx = 0
    /\ individual_results = <<>>
    /\ all_references = <<>>
    /\ entity_references = <<>>
    /\ final_answer = NoResponse
    /\ company = <<>>
    /\ query = <<>>
    /\ question = <<>>
    /\ vector_docs = <<>>
    /\ bm25_docs = <<>>
    /\ vector_failed = FALSE
    /\ store_failed = FALSE
    /\ candidates = <<>>
    /\ scored = <<>>
    /\ chunks = <<>>
    /\ references = <<>>
    /\ calls = NoCalls
    /\ exc = "none"
    /\ bm25_scores = <<>>
    /\ fetch_k = FetchK
    /\ threads = <<>>
    /\ attempts = <<>>

\* One attempt of _call_llm (client.py lines 179-187).
CallLLMAttempt ==
    /\ pc \in {"answer_call", "rephrase_call"}
    /\ CallLLMRetries(attempts)
    /\ \E result \in AttemptResults : attempts' = Append(attempts, result)
    /\ UNCHANGED <<pc, bm25_scores, fetch_k, threads, main_vars, question_vars, response,
                   comparative_vars, single_args, retrieve_vars, chunks, answer,
                   references, bm25_cache, calls, exc>>

\* answer_question returns (client.py lines 220-238).
AnswerQuestionReturns ==
    /\ pc = "answer_call"
    /\ attempts # <<>>
    /\ ~CallLLMRetries(attempts)
    /\ \E o \in OutcomesAfter(kind, attempts[Len(attempts)]) :
         answer' = AnswerQuestion(kind, o)
    /\ pc' = "answer_returned"
    /\ UNCHANGED <<unit_vars, main_vars, question_vars, response, comparative_vars, single_args,
                   retrieve_vars, chunks, references, bm25_cache, calls, exc>>

\* rephrase_comparative_question returns (client.py lines 265-284); the router
\* makes its map of the items (router.py lines 250-253).
RephraseReturns ==
    /\ pc = "rephrase_call"
    /\ attempts # <<>>
    /\ ~CallLLMRetries(attempts)
    /\ IF attempts[Len(attempts)] = "parsed"
       THEN /\ \E items \in DecomposerResponses(companies) :
                  rephrased_map' = RephrasedMap(items)
            /\ rephrase_failed' = FALSE
       ELSE /\ rephrased_map' = RephrasedMap(RephraseFallback(question_text, companies))
            /\ rephrase_failed' = TRUE
    /\ pc' = "rephrase_returned"
    /\ UNCHANGED <<unit_vars, main_vars, question_text, question_kind, companies, route,
                   response, idx, individual_results, all_references, entity_references,
                   final_answer, single_args, retrieve_vars, chunks, answer, references,
                   bm25_cache, calls, exc>>

NextCallLLM ==
    \/ CallLLMAttempt
    \/ AnswerQuestionReturns
    \/ RephraseReturns

\* The client is sequential: an attempt returns or raises, and the next step
\* is taken.
SpecCallLLM == InitCallLLM /\ [][NextCallLLM]_vars /\ WF_vars(NextCallLLM)

(***************************************************************************)
(* Properties.                                                             *)
(***************************************************************************)
PagesOf(evidence) == {evidence[k].page_index : k \in DOMAIN evidence}

\* The negative sentinels: "N/A", false, the empty list.
IsSentinel(v) == v = StrV("N/A") \/ v = BoolV(FALSE) \/ v = ListV(<<>>)

\* The negative sentinel of a kind.
SentinelOf(k) ==
    CASE k = BOOLEAN_KIND -> BoolV(FALSE)
      [] k = NAMES -> ListV(<<>>)
      [] OTHER -> StrV("N/A")

\* The known company names that occur in a text, in directory order.
NamesIn(text) == SelectSeq(known_companies, LAMBDA name : Contains(text, name))

\* A question is being processed by answer_question.
InQuestion ==
    pc \in {"decompose", "vector", "bm25", "rerank", "answer", "single_done",
            "final", "return", "except"}

\* _handle_single is active.
InSingle == pc \in {"vector", "bm25", "rerank", "answer", "single_done"}

\* C1: when _handle_single returns, every reference it returns has a page that
\* the Answerer claimed in this call and that is the page of a chunk of the
\* evidence list shown in this call, and its pdf_sha1 is the source of such a
\* chunk.
C1_ReferencesBackedByEvidence ==
    pc = "single_done" =>
        \A r \in Range(references) :
            /\ r.page_index \in Range(answer.relevant_pages)
            /\ \E k \in DOMAIN chunks :
                 /\ chunks[k].page_index = r.page_index
                 /\ chunks[k].source = r.pdf_sha1

\* C1 witness: the Answerer claimed a page it was shown and a page it was not
\* shown, and references were returned.
C1_Witness ==
    /\ pc = "single_done"
    /\ references # <<>>
    /\ \E p \in Range(answer.relevant_pages) : p \notin PagesOf(chunks)

\* C2: on every routing path, a RouterResponse whose value is a negative
\* sentinel ("N/A", false, the empty list) has no references.
C2_NegativeValueHasNoReferences ==
    pc = "return" => (IsSentinel(response.value) => response.references = <<>>)

\* C3: no failure of a collaborator call made during _handle_single or
\* _handle_comparative leaves the handler as an exception.
C3_NoCollaboratorFailureEscapes ==
    InQuestion => (exc = "none" /\ pc # "except")

\* C4: every question of the input list yields one answer, in input order:
\* process_single_question does not raise, main holds one answer per
\* processed question, each for its question's text and kind and with a value
\* of an answer type and references of {pdf_sha1, page_index}; an answer made
\* because processing raised is the negative sentinel of the kind with no
\* references; when the run ends every question has its answer.
C4_OneAnswerPerQuestion ==
    /\ pc # "crashed"
    /\ Len(answers_list) = i
    /\ Len(failed) = i
    /\ i <= Len(questions_data)
    /\ pc = "saved" => i = Len(questions_data)
    /\ \A j \in 1..Len(answers_list) :
         /\ answers_list[j].question_text = questions_data[j].text
         /\ answers_list[j].kind = questions_data[j].kind
         /\ answers_list[j].value.tag \in {"str", "num", "bool", "list"}
         /\ \A r \in Range(answers_list[j].references) :
              DOMAIN r = {"pdf_sha1", "page_index"}
         /\ failed[j] =>
              /\ answers_list[j].value = SentinelOf(questions_data[j].kind)
              /\ answers_list[j].references = <<>>

\* C5: in _handle_comparative an error raised by one company's sub-pipeline
\* does not abort the comparison: the exception does not leave the handler.
C5_EntityFailureDoesNotAbortComparison ==
    ~(route = "comparative" /\ pc = "except")

\* C6: for a positive answer whose claimed pages are all
\* pages of the evidence, _validate_references returns one reference per
\* distinct claimed page, in the ranked order of the evidence, and no page
\* index twice.
C6_OneReferencePerClaimedPage ==
    (/\ pc = "single_done"
     /\ chunks # <<>>
     /\ ~IsNegative(kind, answer.value)
     /\ Range(answer.relevant_pages) \subseteq PagesOf(chunks))
    =>
        /\ {references[a].page_index : a \in DOMAIN references}
             = Range(answer.relevant_pages)
        /\ \A a, b \in DOMAIN references :
             a # b => references[a].page_index # references[b].page_index
        /\ \A a, b \in DOMAIN references :
             a < b =>
                \E ka, kb \in DOMAIN chunks :
                    /\ ka < kb
                    /\ chunks[ka].page_index = references[a].page_index
                    /\ chunks[kb].page_index = references[b].page_index

\* C7: _validate_references returns the empty list when the value is the
\* negative sentinel of the kind ("N/A"; false for a boolean question; the
\* empty list for a names question), whatever the claimed pages and the
\* evidence, and when the claimed pages are empty.
C7_NegativeOrUnclaimedGivesNoReferences ==
    pc = "validated" =>
        ((\/ answer.value = StrV("N/A")
          \/ (kind = BOOLEAN_KIND /\ answer.value = BoolV(FALSE))
          \/ (kind = NAMES /\ answer.value = ListV(<<>>))
          \/ answer.relevant_pages = <<>>)
         => references = <<>>)

\* C7 witness: a names question answered by the empty list, with claimed pages
\* that are all pages of the evidence shown.
C7_Witness ==
    /\ pc = "validated"
    /\ kind = NAMES
    /\ answer.value = ListV(<<>>)
    /\ answer.relevant_pages # <<>>
    /\ Range(answer.relevant_pages) \subseteq PagesOf(chunks)
    /\ references = <<>>

\* C8: while a question whose text contains no known company name is being
\* processed, answer_question is already at its return with the fallback
\* value of the kind (false, empty list, else "N/A") and no references, and
\* no retriever, decomposer or Answerer call has been made.
C8_NoCompanyFallsBackAtOnce ==
    (InQuestion /\ NamesIn(question_text) = <<>>) =>
        /\ pc = "return"
        /\ response = RouterResponse(SentinelOf(question_kind), <<>>)
        /\ calls = NoCalls

\* C8 witness: a names question without a known company, about to return the
\* empty list.
C8_Witness ==
    /\ pc = "return"
    /\ question_text # <<>>
    /\ NamesIn(question_text) = <<>>
    /\ question_kind = NAMES
    /\ response.value = ListV(<<>>)

\* C9: a question with exactly one known company name is on the single path
\* only, _handle_single runs for that company with the caller's kind, and the
\* value returned is that of its answer; a question with more than one is on
\* the comparative path only, over all the companies found, and the value
\* returned is that of the final comparative answer.
C9_RoutedByNumberOfCompanies ==
    InQuestion =>
        LET found == NamesIn(question_text)
        IN  /\ Len(found) = 1 =>
                 /\ route = "single"
                 /\ pc \notin {"decompose", "final"}
                 /\ calls.decomposer = 0
                 /\ individual_results = <<>>
                 /\ (InSingle \/ pc = "return") =>
                        (company = found[1] /\ kind = question_kind)
                 /\ pc = "return" => response.value = answer.value
            /\ Len(found) > 1 =>
                 /\ route = "comparative"
                 /\ companies = found
                 /\ InSingle => (idx \in 1..Len(found) /\ company = found[idx])
                 /\ pc = "return" =>
                        /\ calls.decomposer = 1
                        /\ Len(individual_results) = Len(found)
                        /\ response.value = final_answer.value

\* C9 witness: after a one-company question was answered on the single path, a
\* two-company question returns the company the final comparative call chose.
C9_Witness ==
    /\ pc = "return"
    /\ i = 1
    /\ Len(NamesIn(questions_data[1].text)) = 1
    /\ ~failed[1]
    /\ Len(NamesIn(question_text)) = 2
    /\ response.value = StrV("A")

\* C10: after a failed decomposition call every company is processed with the
\* original question as its sub-question, and the comparative pipeline runs to
\* its return with a result for every company; a company without an item of
\* the decomposer also gets the original question.
C10_DecompositionFailureFallsBack ==
    /\ rephrase_failed =>
         /\ pc # "except"
         /\ InSingle => query = question_text
         /\ pc = "return" => Len(individual_results) = Len(companies)
    /\ (route = "comparative" /\ InSingle /\ company \notin DOMAIN rephrased_map) =>
         query = question_text

\* The unrounded scores reranker.predict gave, in candidate order.
ScoresOf(pairs) == [k \in DOMAIN pairs |-> pairs[k].score]

\* The distinct passage texts of the two pools of the current retrieve.
PoolTexts ==
    {bm25_docs[k].page_content : k \in DOMAIN bm25_docs}
    \cup {vector_docs[k].page_content : k \in DOMAIN vector_docs}

\* The score reranker.predict gave to the candidate with this text.
ScoreOfText(t) == scored[CHOOSE k \in DOMAIN scored : scored[k].text = t].score

\* C11: when exactly one of the semantic search and the passage-store fetch
\* raises, its pool is empty, retrieve does not raise, and when the other
\* pool is not empty retrieve returns the reranked top-K of that pool.
C11_OneModalityFailureIsAnEmptyPool ==
    (vector_failed # store_failed) =>
        /\ pc # "except"
        /\ vector_failed => vector_docs = <<>>
        /\ store_failed => bm25_docs = <<>>
        /\ pc = "answer" =>
             LET other == IF vector_failed THEN bm25_docs ELSE vector_docs
             IN  other # <<>> =>
                    /\ Len(scored) = Len(other)
                    /\ chunks = Rerank(other, ScoresOf(scored), TopK)

\* C12: when the merged pool of a company that resolves is empty,
\* _handle_single returns the fallback sentinel of its kind with no claimed
\* pages and no references, no exception is raised, and neither the reranker
\* nor the Answerer was called for it.
C12_EmptyEvidenceFallsBack ==
    (pc = "single_done" /\ chunks = <<>> /\ company \in DOMAIN company_map) =>
        /\ answer.value = SentinelOf(kind)
        /\ answer.relevant_pages = <<>>
        /\ answer.reasoning_summary = "No information found"
        /\ references = <<>>
        /\ exc = "none"
        /\ scored = <<>>
        /\ route = "single" => (calls.reranker = 0 /\ calls.answerer = 0)

\* C12 witness: both pool fetches of a boolean question's company raised and
\* _handle_single returned False.
C12_Witness ==
    /\ pc = "single_done"
    /\ chunks = <<>>
    /\ company \in DOMAIN company_map
    /\ vector_failed
    /\ store_failed
    /\ kind = BOOLEAN_KIND
    /\ answer.value = BoolV(FALSE)

\* C13: the list retrieve returns is sorted by (rounded) score, descending.
C13_ResultSortedByScore ==
    pc = "answer" =>
        \A a, b \in DOMAIN chunks : a < b => chunks[a].score >= chunks[b].score

\* C13 witness: the reranker scored the second candidate above the first, and
\* retrieve returned both, the higher score first.
C13_Witness ==
    /\ pc = "answer"
    /\ Len(scored) = 2
    /\ scored[1].score < scored[2].score
    /\ Len(chunks) = 2
    /\ chunks[1].score > chunks[2].score

\* C14: retrieve returns min(top_k, n) candidates, n the number of distinct
\* passage texts of the two pools, and every returned candidate has a rerank
\* score at least that of every candidate that was not returned.
C14_TopKHighestScored ==
    pc = "answer" =>
        LET n == Cardinality(PoolTexts)
            returned == {chunks[k].text : k \in DOMAIN chunks}
        IN  /\ Len(chunks) = (IF TopK < n THEN TopK ELSE n)
            /\ returned \subseteq PoolTexts
            /\ \A t \in returned :
                 \A u \in PoolTexts \ returned : ScoreOfText(t) >= ScoreOfText(u)

\* C14 witness: candidates of both pools, one of them scored below the others
\* and not returned.
C14_Witness ==
    /\ pc = "answer"
    /\ bm25_docs # <<>>
    /\ vector_docs # <<>>
    /\ \E u \in PoolTexts :
         /\ \A k \in DOMAIN chunks : chunks[k].text # u
         /\ \A k \in DOMAIN chunks : ScoreOfText(chunks[k].text) > ScoreOfText(u)

\* C15: no two candidates retrieve returns have the same text, and every
\* distinct passage text of the two pools is scored once, in one call of the
\* reranker per retrieve.
C15_DeduplicatedByText ==
    pc = "answer" =>
        /\ \A a, b \in DOMAIN chunks : a # b => chunks[a].text # chunks[b].text
        /\ {scored[k].text : k \in DOMAIN scored} = PoolTexts
        /\ Len(scored) = Cardinality(PoolTexts)
        /\ route = "single" => calls.reranker = 1
        /\ route = "comparative" => calls.reranker <= idx

\* C15 witness: a passage found by both searches, scored once among two
\* candidates.
C15_Witness ==
    /\ pc = "answer"
    /\ \E a \in DOMAIN bm25_docs, b \in DOMAIN vector_docs :
         bm25_docs[a].page_content = vector_docs[b].page_content
    /\ Len(scored) = 2
    /\ Len(chunks) = 2


\* Concatenation of a sequence of sequences.
RECURSIVE Concat(_)
Concat(ss) == IF ss = <<>> THEN <<>> ELSE Head(ss) \o Concat(Tail(ss))

\* C16: in a comparative question the summary lines are those of the
\* companies in the order of the company list, and the summary block given to
\* the final Answerer call has one line for every company.
C16_SummaryInEntityOrder ==
    route = "comparative" =>
        /\ Len(individual_results) <= Len(companies)
        /\ \A k \in DOMAIN individual_results :
             individual_results[k].company = companies[k]
        /\ pc \in {"final", "return"} => Len(individual_results) = Len(companies)

\* C16 witness: the final Answerer call is about to be made with the lines of
\* two different companies.
C16_Witness ==
    /\ route = "comparative"
    /\ pc = "final"
    /\ Len(individual_results) = 2
    /\ individual_results[1].company # individual_results[2].company
    /\ individual_results[1].extracted_data # individual_results[2].extracted_data

\* C17: the references of _handle_comparative are the concatenation, in
\* company order, of the references its _handle_single calls returned, and
\* the final Answerer call changes none of them.
C17_ReferencesAreSubCallsConcatenated ==
    route = "comparative" =>
        /\ all_references = Concat(entity_references)
        /\ Len(entity_references) = Len(individual_results)
        /\ pc = "return" =>
             /\ Len(entity_references) = Len(companies)
             /\ response.references = Concat(entity_references)

\* C17 witness: both sub-calls returned references and the comparison
\* returns them, the first company's first.
C17_Witness ==
    /\ route = "comparative"
    /\ pc = "return"
    /\ Len(entity_references) = 2
    /\ entity_references[1] # <<>>
    /\ entity_references[2] # <<>>
    /\ response.references = entity_references[1] \o entity_references[2]
    /\ response.value = StrV("A")


\* C18: for a company name that is not in the directory retrieve returns the
\* empty list, raises nothing, calls neither the semantic search, the passage
\* store nor the reranker, and leaves the lexical cache as it was.
C18_UnresolvedNameReturnsEmpty ==
    [][(pc = "call" /\ company' \notin DOMAIN company_map) =>
          /\ pc' = "single_done"
          /\ chunks' = <<>>
          /\ scored' = <<>>
          /\ calls' = calls
          /\ bm25_cache' = bm25_cache
          /\ exc' = "none"]_vars

\* C18 witness: retrieve returned for a name that is not in the directory,
\* with an index in the lexical cache.
C18_Witness ==
    /\ pc = "single_done"
    /\ company = <<"A", "Z">>
    /\ company \notin DOMAIN company_map
    /\ bm25_cache # <<>>
    /\ chunks = <<>>

\* C19: _extract_companies returns the directory names that occur in the
\* text as substrings, each once, and every name it returns is a key of the
\* directory and resolves to a document.
C19_ExtractsDirectoryNamesInText ==
    pc = "extracted" =>
        /\ Range(companies) =
              {name \in DOMAIN company_map : Contains(question_text, name)}
        /\ \A a, b \in DOMAIN companies : a # b => companies[a] # companies[b]
        /\ \A k \in DOMAIN companies : GetSha1ByName(companies[k]) # None

\* C19 witness: a text with a double quote in which two directory names occur.
C19_Witness ==
    /\ pc = "extracted"
    /\ Contains(question_text, <<"\"">>)
    /\ Len(companies) = 2

\* C20: when the model call of answer_question fails for good, answer_question
\* raises nothing and returns the negative sentinel of the kind asked for,
\* with no claimed pages.
C20_AnswererFailureGivesSentinel ==
    /\ (pc = "single_done" /\ answer.reasoning_summary = "error") =>
          /\ answer.value = SentinelOf(kind)
          /\ answer.relevant_pages = <<>>
          /\ exc = "none"
    /\ (pc = "return" /\ final_answer.reasoning_summary = "error") =>
          /\ final_answer.value = SentinelOf(COMPARATIVE)
          /\ final_answer.relevant_pages = <<>>
          /\ exc = "none"

\* C20 witness: the model call for a names question with evidence failed and
\* _handle_single has the empty list.
C20_Witness ==
    /\ pc = "single_done"
    /\ chunks # <<>>
    /\ kind = NAMES
    /\ answer.reasoning_summary = "error"
    /\ answer.value = ListV(<<>>)


\* The documents of a pool that a later document of the pool with the same
\* text does not replace.
LastByText(pool) ==
    {pool[k] : k \in {j \in DOMAIN pool :
                        \A m \in DOMAIN pool :
                           pool[m].page_content = pool[j].page_content => m <= j}}

\* C21: merging a pool with itself gives the same deduplicated candidates as
\* the pool alone as lexical pool or alone as semantic pool: in each of the
\* three cases the candidates are the pool's documents, one per text.
C21_MergeIdempotent ==
    (pc = "merged" /\ (bm25_docs = vector_docs \/ bm25_docs = <<>> \/ vector_docs = <<>>)) =>
        LET pool == IF bm25_docs = <<>> THEN vector_docs ELSE bm25_docs
        IN  /\ Range(candidates) = LastByText(pool)
            /\ \A a, b \in DOMAIN candidates :
                 a # b => candidates[a].page_content # candidates[b].page_content

\* C21 witness: a pool of two passages merged with itself gives two candidates.
C21_Witness ==
    /\ pc = "merged"
    /\ Len(bm25_docs) = 2
    /\ bm25_docs[1].page_content # bm25_docs[2].page_content
    /\ bm25_docs = vector_docs
    /\ Len(candidates) = 2


\* C22: when the mapping file is missing or lacks a required column, the
\* construction of the retriever raises, main processes no question and
\* writes no submission.
C22_ConstructionFailsFast ==
    mapping_csv # "ok" =>
        /\ pc \in {"start", "init_failed"}
        /\ i = 0
        /\ answers_list = <<>>

\* C22 witness: main has returned after the construction failed on a mapping
\* file without the required columns, with questions to process.
C22_Witness ==
    /\ pc = "init_failed"
    /\ mapping_csv = "no_columns"
    /\ Len(questions_data) = 2


\* The collaborator whose call is made at each place of the program.
CallMadeAt ==
    [vector |-> "vector", store |-> "bm25", reranker |-> "rerank",
     answerer |-> "answer", decomposer |-> "decompose", synthesis |-> "final"]

RankedBefore(j, k) == bm25_scores[j] > bm25_scores[k] \/ (bm25_scores[j] = bm25_scores[k] /\ j < k)

\* C24: for every score vector and every limit, _fetch_bm25_candidates
\* returns exactly the first `limit` passages of the descending ranking of the
\* passages with a strictly positive score, equal bm25_scores in passage order: no
\* passage with a score <= 0, and at most `limit` passages.
C24_LexicalPoolIsPositivePrefix ==
    pc = "lexical_done" =>
        LET positive == {k \in DOMAIN bm25_scores : bm25_scores[k] > 0}
            rank(k) == 1 + Cardinality({j \in positive : RankedBefore(j, k)})
            n == IF Cardinality(positive) < fetch_k THEN Cardinality(positive) ELSE fetch_k
        IN  /\ Len(bm25_docs) = n
            /\ \A k \in positive : rank(k) <= n => bm25_docs[rank(k)] = LexicalPassages[k]

\* C24 witness: three passages have the scores 2, 0 and 2 and the limit is
\* two; the two passages of score 2 are returned in passage order.
C24_Witness ==
    /\ pc = "lexical_done"
    /\ bm25_scores = <<2, 0, 2>>
    /\ fetch_k = 2
    /\ bm25_docs = <<LexicalPassages[1], LexicalPassages[3]>>

\* C25: a cache entry, once written, is never removed or replaced, and a
\* lexical query for a document whose index is in the cache fetches nothing
\* from the passage store and takes its passages from the cached list.
C25_CacheEntriesKept ==
    [][/\ \A s \in DOMAIN bm25_cache :
            s \in DOMAIN bm25_cache' /\ bm25_cache'[s] = bm25_cache[s]
       /\ (pc = "bm25" /\ GetSha1ByName(company) \in DOMAIN bm25_cache) =>
            /\ calls'.store = calls.store
            /\ Range(bm25_docs') \subseteq Range(bm25_cache[GetSha1ByName(company)])]_vars

\* C25 witness: the second question is about the company of the first, whose
\* index is in the cache; its lexical query returned passages and the passage
\* store was not called for it.
C25_Witness ==
    /\ i = 1
    /\ pc = "rerank"
    /\ route = "single"
    /\ GetSha1ByName(company) = "d4"
    /\ "d4" \in DOMAIN bm25_cache
    /\ calls.store = 0
    /\ bm25_docs # <<>>

\* C27: every cache entry holds a non-empty passage list; a lexical query
\* for a document that is not in the cache fetches from the passage store, and
\* when the fetch raises or returns no passages the pool is empty, no cache
\* entry is created and nothing is raised.
C27_NoEntryForEmptyDocument ==
    /\ [](\A s \in DOMAIN bm25_cache : bm25_cache[s] # <<>>)
    /\ [][(pc = "bm25" /\ GetSha1ByName(company) \notin DOMAIN bm25_cache) =>
            /\ calls'.store = calls.store + 1
            /\ (store_failed' \/ Store(GetSha1ByName(company)) = <<>>) =>
                 /\ bm25_docs' = <<>>
                 /\ bm25_cache' = bm25_cache
                 /\ exc' = "none"
                 /\ pc' # "except"]_vars

\* C27 witness: the first question's fetch for company H raised, so that no
\* entry was left; the second question, about H again, fetched from the
\* passage store again, and this time the index was built.
C27_Witness ==
    /\ i = 1
    /\ route = "single"
    /\ pc \in {"rerank", "single_done"}
    /\ GetSha1ByName(company) = "d4"
    /\ calls.store = 1
    /\ ~store_failed
    /\ "d4" \in DOMAIN bm25_cache

\* C26: when several callers request the index of one uncached document at
\* the same time, the cache never holds anything for that document but the
\* passage list of a single build; every caller whose fetch returned obtains
\* an index over that same list (none when the document has no passages),
\* and when all have returned the cache holds that one entry if any caller's
\* fetch returned passages.
C26_ConcurrentFirstAccess ==
    pc = "index" =>
        /\ \A s \in DOMAIN bm25_cache : bm25_cache[s] = Store(s) /\ Store(s) # <<>>
        /\ \A t \in DOMAIN threads :
             LET c == threads[t]
             IN  /\ DOMAIN bm25_cache \subseteq {c.sha1}
                 /\ (c.at = "done" /\ ~c.fetch_failed) =>
                       c.result = (IF Store(c.sha1) = <<>> THEN None ELSE Store(c.sha1))
                 /\ (c.at = "done" /\ c.fetch_failed) => c.result = None
        /\ (\A t \in DOMAIN threads : threads[t].at = "done") =>
             \A t \in DOMAIN threads :
                (~threads[t].fetch_failed /\ Store(threads[t].sha1) # <<>>) =>
                    threads[t].sha1 \in DOMAIN bm25_cache

\* C26 witness: two callers both found no entry for document d1, both fetched
\* and built, and both wrote the entry.
C26_Witness ==
    /\ pc = "index"
    /\ \A t \in DOMAIN threads :
         /\ threads[t].sha1 = "d1"
         /\ threads[t].at = "done"
         /\ threads[t].built
    /\ bm25_cache = CacheOf({"d1"})

\* name occurs in text at position p.
OccursAt(text, name, p) ==
    /\ p \in 1..(Len(text) - Len(name) + 1)
    /\ SubSeq(text, p, p + Len(name) - 1) = name

\* name has an occurrence in text that does not lie inside an occurrence of a
\* longer name of the directory.
MatchedAsLongest(text, name) ==
    \E p \in 1..Len(text) :
        /\ OccursAt(text, name, p)
        /\ \A longer \in DOMAIN company_map, q \in 1..Len(text) :
              ~ /\ Len(longer) > Len(name)
                /\ OccursAt(text, longer, q)
                /\ q <= p
                /\ p + Len(name) <= q + Len(longer)

\* C28: the scan prefers the longest match: a name is reported only for an
\* occurrence that does not lie inside an occurrence of a longer directory
\* name, and a question whose only such name is the longer one takes the
\* single-entity path.
C28_LongestMatchPreferred ==
    InQuestion =>
        /\ \A k \in DOMAIN companies : MatchedAsLongest(question_text, companies[k])
        /\ Cardinality({name \in DOMAIN company_map :
                            MatchedAsLongest(question_text, name)}) = 1
              => route = "single"

\* C29: on the comparative path every _handle_single call and every Answerer
\* call it makes ask for the kind NUMBER, and the last Answerer call, made
\* when the comparison returns, is given the original question and the kind
\* COMPARATIVE, whatever kind answer_question was called with.
C29_ComparativeCallKinds ==
    route = "comparative" =>
        /\ InSingle => kind = NUMBER
        /\ \A k \in DOMAIN calls.asked :
             IF pc = "return" /\ k = Len(calls.asked)
             THEN calls.asked[k] = [question |-> question_text, kind |-> COMPARATIVE]
             ELSE /\ calls.asked[k].kind = NUMBER
                  /\ \E c \in Range(companies) :
                       calls.asked[k].question = SubQuery(rephrased_map, c, question_text)
        /\ pc = "return" => calls.asked # <<>>

\* C29 witness: a comparison asked with the kind boolean has returned after
\* two sub-calls and the final call of the Answerer.
C29_Witness ==
    /\ route = "comparative"
    /\ question_kind = BOOLEAN_KIND
    /\ pc = "return"
    /\ Len(calls.asked) = 3

\* The call has returned one of the client's fallbacks.
ReturnedFallback ==
    \/ pc = "answer_returned" /\ answer \in {GetFallbackResponse(kind, "error"),
                                             GetFallbackResponse(kind, "no parsed output")}
    \/ pc = "rephrase_returned" /\ rephrase_failed

\* What C30 says of the attempts and of the call whatever the fallback follows:
\* at most three attempts, none after an attempt that did not raise, nothing
\* returned while attempts go on, and a response of the kind's outcomes when
\* the call returns.
AttemptsWithinCall ==
    /\ Len(attempts) <= 3
    /\ \A k \in 1..(Len(attempts) - 1) : attempts[k] = "raise"
    /\ pc \in {"answer_call", "rephrase_call"} =>
          (answer = NoResponse /\ rephrased_map = <<>> /\ ~rephrase_failed)
    /\ pc \in {"answer_returned", "rephrase_returned"} => attempts # <<>>
    /\ pc = "answer_returned" => answer \in AnswerOutcomes(kind)
    /\ exc = "none"

\* C30 as stated: one answer_question or rephrase_comparative_question call
\* makes at most 3 attempts, stops at the first attempt that does not raise,
\* shows nothing of the attempts before it returns, and always returns: a
\* response, or the fallback after the third failed attempt.
C30_FallbackOnlyAfterThirdFailure ==
    /\ [](/\ AttemptsWithinCall
          /\ ReturnedFallback =>
                (Len(attempts) = 3 /\ \A k \in DOMAIN attempts : attempts[k] = "raise"))
    /\ <>(pc \in {"answer_returned", "rephrase_returned"})

\* C30, amended: the same, and the fallback is returned after the third
\* attempt that raised or after an attempt that returned no parsed output
\* (which is not retried).
C30_BoundedAttemptsOneOutcome ==
    /\ [](/\ AttemptsWithinCall
          /\ ReturnedFallback =>
                \/ Len(attempts) = 3 /\ \A k \in DOMAIN attempts : attempts[k] = "raise"
                \/ attempts[Len(attempts)] = "none"
          /\ (pc \in {"answer_returned", "rephrase_returned"} /\ ~ReturnedFallback) =>
                attempts[Len(attempts)] = "parsed")
    /\ <>(pc \in {"answer_returned", "rephrase_returned"})

\* C30 witness: the first attempt of an answer_question call raised, the
\* second returned no parsed output and was the last; the fallback was
\* returned.
C30_Witness ==
    /\ pc = "answer_returned"
    /\ attempts = <<"raise", "none">>
    /\ answer = GetFallbackResponse(kind, "no parsed output")

=============================================================================
